---- MODULE Spec2Model ----
(***************************************************************************)
(* Model of the markdown block parser of                                   *)
(* docs-generator/skills/hackathon-debrief/scripts/generate_debrief_doc.py *)
(* (_parse_markdown_blocks, _parse_inline_formatting and their helpers).   *)
(* Text is a sequence of                                                   *)
(* one-character strings; the regular expressions of the source are        *)
(* modelled by scanners that consume the text the way the pattern does.    *)
(***************************************************************************)
EXTENDS Integers, Sequences, FiniteSets, TLC

VARIABLES markdown, lines, i, blocks, span, pc, inline, tokens, tok, runs,
          title, content, result, data, mime, offset,
          sections, entries, links, bookmarks, pos

\* the variables of _strip_redundant_heading besides lines and i
headVars == <<title, content, result>>

\* the variables of _image_dimensions_from_bytes besides result
imageVars == <<data, mime, offset>>

\* the variables of _build_toc_entries, _add_static_toc and
\* _add_content_sections
tocVars == <<sections, entries, links, bookmarks, pos>>

\* the variables of the helper functions
helperVars == <<headVars, imageVars, tocVars>>

\* the variables of the two parsers
parserVars == <<markdown, lines, i, blocks, span, inline, tokens, tok, runs>>

vars == <<markdown, lines, i, blocks, span, pc, inline, tokens, tok, runs, helperVars>>

\* no helper function is running
HeadingIdle == title = <<>> /\ content = <<>> /\ result = <<>>
ImageIdle == data = <<>> /\ mime = <<>> /\ offset = 0
TocIdle ==
  sections = <<>> /\ entries = <<>> /\ links = <<>> /\ bookmarks = <<>> /\ pos = 1

(***************************************************************************)
(* Bounds                                                                  *)
(***************************************************************************)
\* number of input lines of a markdown text
MaxLines == 3
\* number of pieces an inline text is put together from
MaxPieces == 3
\* number of bytes of the image data that are tried in every combination
MaxBytes == 6
\* number of content sections of a document
MaxSections == 3
\* number of blocks the result list can hold before list growth fails
MaxBlocks == 5

(***************************************************************************)
(* Characters and input lines                                              *)
(***************************************************************************)
NL == "\n"
Whitespace == {" ", "\t", "\n", "\r"}
Digits == {"0", "1", "2", "3", "4", "5", "6", "7", "8", "9"}
\* the backquote character (written as a token: the character itself cannot
\* appear in a TLA+ string)
Backquote == "BQ"
Fence == <<Backquote, Backquote, Backquote>>

LnBlank == <<>>
LnH1 == <<"#", " ", "h">>
LnH2Pipe == <<"#", "#", " ", "h", "|", "x">>
LnNoSpace == <<"#", "h">>
LnSevenHash == <<"#", "#", "#", "#", "#", "#", "#", " ", "h">>
LnImage == <<"!", "[", "a", "]", "(", "u", ")">>
LnBadImage == <<"!", "[", "a", "]", "(", "u">>
LnQuote == <<">", " ", "q">>
LnRow == <<"|", "a", " ", "|", "b", "|">>
LnSep3 == <<"|", "-", "-", "-", " ", "|", "-", "-", "-", "|">>
LnSep1 == <<":", "-", "|", "-", ":">>
LnSepOne == <<"|", "-", "-", "-", "|">>
LnItemPipe == <<"-", " ", "a", "|", "b">>
LnOrdered == <<"1", ".", " ", "x">>
LnText == <<"p">>

LnRow3 == <<"1", "|", "|", "3">>
LnItemIn2 == <<" ", " ", "*", " ", "c">>
LnItemIn4 == <<" ", " ", " ", " ", "-", " ", "d">>
LnImagePadded == <<"!", "[", "a", " ", "]", "(", " ", "u", ")">>
LnFence == Fence
LnCode == <<"z">>

LineSet ==
  { LnBlank, LnH1, LnH2Pipe, LnNoSpace, LnSevenHash, LnImage, LnBadImage,
    LnQuote, LnRow, LnSep3, LnSep1, LnSepOne, LnItemPipe, LnOrdered, LnText }

(***************************************************************************)
(* String primitives (Python str methods used by the parser)               *)
(***************************************************************************)
Drop(s, n) == SubSeq(s, n + 1, Len(s))
Take(s, n) == SubSeq(s, 1, n)

RECURSIVE LeadRun(_, _)
\* length of the longest prefix of s made of characters of C
LeadRun(s, C) ==
  IF s # <<>> /\ Head(s) \in C THEN 1 + LeadRun(Tail(s), C) ELSE 0

RECURSIVE TrailRun(_, _)
\* length of the longest suffix of s made of characters of C
TrailRun(s, C) ==
  IF s # <<>> /\ s[Len(s)] \in C THEN 1 + TrailRun(Take(s, Len(s) - 1), C) ELSE 0

lstrip(s) == Drop(s, LeadRun(s, Whitespace))
rstrip(s) == Take(s, Len(s) - TrailRun(s, Whitespace))
strip(s) == lstrip(rstrip(s))

startswith(s, p) == Len(s) >= Len(p) /\ Take(s, Len(p)) = p
endswith(s, p) == Len(s) >= Len(p) /\ Drop(s, Len(s) - Len(p)) = p

\* str.find: lowest 0-based index of p in s, or -1
find(s, p) ==
  LET hits == { k \in 0..(Len(s) - Len(p)) : SubSeq(s, k + 1, k + Len(p)) = p }
  IN  IF hits = {} THEN -1 ELSE CHOOSE k \in hits : \A j \in hits : k <= j

RECURSIVE split(_, _)
\* str.split on a one-character separator
split(s, c) ==
  LET k == find(s, <<c>>)
  IN  IF k < 0 THEN <<s>> ELSE <<Take(s, k)>> \o split(Drop(s, k + 1), c)

RECURSIVE join(_, _)
\* sep.join(parts)
join(parts, sep) ==
  IF parts = <<>> THEN <<>>
  ELSE IF Len(parts) = 1 THEN parts[1]
  ELSE parts[1] \o sep \o join(Tail(parts), sep)

(***************************************************************************)
(* _strip_code_blocks                                                      *)
(***************************************************************************)
\* the text with its fenced regions kept
SubFencesKeep(s) == s

RECURSIVE SubFences(_)
\* re.sub(r'```[\s\S]*?```', '', text): leftmost, non-greedy, non-overlapping
SubFences(s) ==
  IF s = <<>> THEN <<>>
  ELSE IF startswith(s, Fence) /\ find(Drop(s, 3), Fence) >= 0
       THEN SubFences(Drop(s, 3 + find(Drop(s, 3), Fence) + 3))
       ELSE <<Head(s)>> \o SubFences(Tail(s))

_strip_code_blocks(text) == strip(SubFences(text))

(***************************************************************************)
(* Block records                                                           *)
(***************************************************************************)
MdHeading(level, text) == [type |-> "heading", level |-> level, text |-> text]
MdParagraph(text) == [type |-> "paragraph", text |-> text]
MdListItem(text, indent) == [text |-> text, indent |-> indent]
MdList(ordered, items) == [type |-> "list", ordered |-> ordered, items |-> items]
MdImage(alt, url) == [type |-> "image", alt |-> alt, url |-> url]
MdTable(headers, rows) == [type |-> "table", headers |-> headers, rows |-> rows]

(***************************************************************************)
(* Line patterns of _parse_markdown_blocks                                 *)
(***************************************************************************)

NoMatch == [ok |-> FALSE]

\* a heading pattern that takes up to seven '#'
HeadingReSeven(t) ==
  LET n == LeadRun(t, {"#"})
      w == LeadRun(Drop(t, n), Whitespace)
  IN  IF n >= 1 /\ n <= 7 /\ w >= 1 /\ n + w < Len(t)
      THEN [ok |-> TRUE, level |-> n, text |-> strip(Drop(t, n + w))]
      ELSE NoMatch

\* re.match(r'^(#{1,6})\s+(.+)$', trimmed): group 1 is the run of '#',
\* group 2 what is left after the whitespace (the whitespace gives one
\* character back when nothing else is left for '.+')
HeadingRe(t) ==
  LET n == LeadRun(t, {"#"})
      w == LeadRun(Drop(t, n), Whitespace)
      k == IF n + w < Len(t) THEN w ELSE w - 1
      g2 == Drop(t, n + k)
  IN  IF n >= 1 /\ n <= 6 /\ w >= 1 /\ k >= 1 /\ NL \notin { g2[j] : j \in 1..Len(g2) }
      THEN [ok |-> TRUE, level |-> n, text |-> strip(g2)]
      ELSE NoMatch

\* re.match(r'^#{1,6}\s+', cur)
HeadingPrefixRe(t) ==
  LET n == LeadRun(t, {"#"})
  IN  n >= 1 /\ n <= 6 /\ LeadRun(Drop(t, n), Whitespace) >= 1

\* the image test keeping the whitespace of alt and url
ImageMatchNoStrip(t) ==
  LET alt_end == find(t, <<"]", "(">>)
      alt == SubSeq(t, 3, alt_end)
      url == SubSeq(t, alt_end + 3, Len(t) - 1)
  IN  IF startswith(t, <<"!", "[">>) /\ alt_end >= 2 /\ endswith(t, <<")">>)
         /\ url # <<>>
      THEN [ok |-> TRUE, alt |-> alt, url |-> url]
      ELSE NoMatch

\* the image test: trimmed.startswith('![') with '](' found, a closing ')'
\* and a non-empty url
ImageMatch(t) ==
  LET alt_end == find(t, <<"]", "(">>)
      alt == strip(SubSeq(t, 3, alt_end))
      url == strip(SubSeq(t, alt_end + 3, Len(t) - 1))
  IN  IF startswith(t, <<"!", "[">>) /\ alt_end >= 2 /\ endswith(t, <<")">>)
         /\ url # <<>>
      THEN [ok |-> TRUE, alt |-> alt, url |-> url]
      ELSE NoMatch

\* one separator cell: \s*:?-+:?\s*  -- the text left after it, or no match
SepCell(s) ==
  LET a == lstrip(s)
      b == IF a # <<>> /\ Head(a) = ":" THEN Tail(a) ELSE a
      d == LeadRun(b, {"-"})
      c == Drop(b, d)
      e == IF c # <<>> /\ Head(c) = ":" THEN Tail(c) ELSE c
  IN  IF d >= 1 THEN [ok |-> TRUE, rest |-> lstrip(e)] ELSE NoMatch

RECURSIVE SepGroupsStar(_, _)
\* the group repeated with * in place of +
SepGroupsStar(s, n) ==
  IF s = <<>> \/ s = <<"|">> THEN TRUE
  ELSE IF Head(s) = "|"
       THEN LET c == SepCell(Tail(s))
            IN  IF c.ok THEN SepGroupsStar(c.rest, n + 1) ELSE FALSE
       ELSE FALSE

RECURSIVE SepGroups(_, _)
\* (\|\s*:?-+:?\s*)+\|?$  after n repetitions of the group
SepGroups(s, n) ==
  IF s = <<>> \/ s = <<"|">> THEN n >= 1
  ELSE IF Head(s) = "|"
       THEN LET c == SepCell(Tail(s))
            IN  IF c.ok THEN SepGroups(c.rest, n + 1) ELSE FALSE
       ELSE FALSE

\* re.match(r'^\|?\s*:?-+:?\s*(\|\s*:?-+:?\s*)+\|?$', divider)
SeparatorRe(divider) ==
  LET s == IF divider # <<>> /\ Head(divider) = "|" THEN Tail(divider) ELSE divider
      c == SepCell(s)
  IN  IF c.ok THEN SepGroups(c.rest, 0) ELSE FALSE

HasPipe(s) == "|" \in { s[j] : j \in 1..Len(s) }

\* _is_table_candidate(idx), idx counted from 1
_is_table_candidate(ls, idx) ==
  IF idx + 1 > Len(ls) THEN FALSE
  ELSE IF ~HasPipe(strip(ls[idx])) THEN FALSE
  ELSE SeparatorRe(strip(ls[idx + 1]))

\* a row split that leaves out the empty cells
SplitDropEmptyCells(line) ==
  LET row0 == strip(line)
      row1 == IF startswith(row0, <<"|">>) THEN Tail(row0) ELSE row0
      row2 == IF endswith(row1, <<"|">>) THEN Take(row1, Len(row1) - 1) ELSE row1
      cells == split(row2, "|")
      kept == SelectSeq(cells, LAMBDA c : strip(c) # <<>>)
  IN  [c \in 1..Len(kept) |-> strip(kept[c])]

\* a row split that keeps the trailing pipe
SplitKeepTrailingPipe(line) ==
  LET row0 == strip(line)
      row1 == IF startswith(row0, <<"|">>) THEN Tail(row0) ELSE row0
      cells == split(row1, "|")
  IN  [c \in 1..Len(cells) |-> strip(cells[c])]

_split_table_row(line) ==
  LET row0 == strip(line)
      row1 == IF startswith(row0, <<"|">>) THEN Tail(row0) ELSE row0
      row2 == IF endswith(row1, <<"|">>) THEN Take(row1, Len(row1) - 1) ELSE row1
      cells == split(row2, "|")
  IN  [c \in 1..Len(cells) |-> strip(cells[c])]

\* re.match(r'^\d+\.\s+', t): the length of the matched prefix, 0 for no match
OrderedRe(t) ==
  LET d == LeadRun(t, Digits)
      w == LeadRun(Drop(t, d + 1), Whitespace)
  IN  IF d >= 1 /\ Len(t) > d /\ t[d + 1] = "." /\ w >= 1 THEN d + 1 + w ELSE 0

\* re.match(r'^[-*]\s+', t): the length of the matched prefix, 0 for no match
UnorderedRe(t) ==
  LET w == LeadRun(Drop(t, 1), Whitespace)
  IN  IF t # <<>> /\ Head(t) \in {"-", "*"} /\ w >= 1 THEN 1 + w ELSE 0

Min(a, b) == IF a <= b THEN a ELSE b

(***************************************************************************)
(* Inner loops of _parse_markdown_blocks.  Lines are counted from 1, so    *)
(* the loop condition i < len(lines) reads i <= Len(ls).                   *)
(***************************************************************************)
RECURSIVE SkipBlanksDoWhile(_, _)
\* the peek loop advancing before it tests
SkipBlanksDoWhile(ls, peek) ==
  IF peek + 1 <= Len(ls) /\ strip(ls[peek + 1]) = <<>>
  THEN SkipBlanksDoWhile(ls, peek + 1)
  ELSE peek + 1

RECURSIVE SkipBlanks(_, _)
\* while peek < len(lines) and lines[peek].strip() == '': peek += 1
SkipBlanks(ls, peek) ==
  IF peek <= Len(ls) /\ strip(ls[peek]) = <<>> THEN SkipBlanks(ls, peek + 1) ELSE peek

RECURSIVE TableRows(_, _, _)
\* the data-row loop of the table branch
TableRows(ls, k, rows) ==
  IF k <= Len(ls) /\ HasPipe(strip(ls[k])) /\ strip(ls[k]) # <<>>
  THEN TableRows(ls, k + 1, Append(rows, _split_table_row(ls[k])))
  ELSE [i |-> k, rows |-> rows]

RECURSIVE OrderedLoop(_, _, _)
\* the item loop of the ordered-list branch
OrderedLoop(ls, k, items) ==
  IF k > Len(ls) THEN [i |-> k, items |-> items]
  ELSE LET lt == strip(ls[k])
           peek == SkipBlanks(ls, k + 1)
       IN  IF OrderedRe(lt) > 0
           THEN OrderedLoop(ls, k + 1, Append(items, Drop(lt, OrderedRe(lt))))
           ELSE IF lt = <<>>
                THEN IF peek <= Len(ls) /\ OrderedRe(strip(ls[peek])) > 0
                     THEN OrderedLoop(ls, peek, items)
                     ELSE [i |-> k, items |-> items]
                ELSE [i |-> k, items |-> items]

RECURSIVE UnorderedLoopRaw(_, _, _)
\* the item loop testing the raw line where the branch tested the trimmed one
UnorderedLoopRaw(ls, k, items) ==
  IF k > Len(ls) THEN [i |-> k, items |-> items]
  ELSE LET raw == ls[k]
           lt == strip(raw)
           leading == Len(raw) - Len(lstrip(raw))
           indent_level == Min(leading \div 2, 2)
           peek == SkipBlanks(ls, k + 1)
       IN  IF UnorderedRe(raw) > 0
           THEN UnorderedLoopRaw(ls, k + 1,
                  Append(items, MdListItem(Drop(lt, UnorderedRe(lt)), indent_level)))
           ELSE IF lt = <<>>
                THEN IF peek <= Len(ls) /\ UnorderedRe(strip(ls[peek])) > 0
                     THEN UnorderedLoopRaw(ls, peek, items)
                     ELSE [i |-> k, items |-> items]
                ELSE [i |-> k, items |-> items]

RECURSIVE UnorderedLoopSwallow(_, _, _)
\* the item loop advancing past the line that ends the list
UnorderedLoopSwallow(ls, k, items) ==
  IF k > Len(ls) THEN [i |-> k, items |-> items]
  ELSE LET raw == ls[k]
           lt == strip(raw)
           leading == Len(raw) - Len(lstrip(raw))
           indent_level == Min(leading \div 2, 2)
           peek == SkipBlanks(ls, k + 1)
       IN  IF UnorderedRe(lt) > 0
           THEN UnorderedLoopSwallow(ls, k + 1,
                  Append(items, MdListItem(Drop(lt, UnorderedRe(lt)), indent_level)))
           ELSE IF lt = <<>>
                THEN IF peek <= Len(ls) /\ UnorderedRe(strip(ls[peek])) > 0
                     THEN UnorderedLoopSwallow(ls, peek, items)
                     ELSE [i |-> k, items |-> items]
                ELSE [i |-> k + 1, items |-> items]

RECURSIVE UnorderedLoop(_, _, _)
\* the item loop of the unordered-list branch
UnorderedLoop(ls, k, items) ==
  IF k > Len(ls) THEN [i |-> k, items |-> items]
  ELSE LET raw == ls[k]
           lt == strip(raw)
           leading == Len(raw) - Len(lstrip(raw))
           indent_level == Min(leading \div 2, 2)
           peek == SkipBlanks(ls, k + 1)
       IN  IF UnorderedRe(lt) > 0
           THEN UnorderedLoop(ls, k + 1,
                  Append(items, MdListItem(Drop(lt, UnorderedRe(lt)), indent_level)))
           ELSE IF lt = <<>>
                THEN IF peek <= Len(ls) /\ UnorderedRe(strip(ls[peek])) > 0
                     THEN UnorderedLoop(ls, peek, items)
                     ELSE [i |-> k, items |-> items]
                ELSE [i |-> k, items |-> items]

RECURSIVE ParagraphLoopNoTable(_, _, _)
\* the collecting loop without the table-candidate test
ParagraphLoopNoTable(ls, k, para_lines) ==
  IF k > Len(ls) THEN [i |-> k, para_lines |-> para_lines]
  ELSE LET cur == strip(ls[k])
       IN  IF \/ cur = <<>>
              \/ HeadingPrefixRe(cur)
              \/ startswith(cur, <<"!", "[">>)
              \/ startswith(cur, <<">">>)
              \/ OrderedRe(cur) > 0
              \/ UnorderedRe(cur) > 0
           THEN [i |-> k, para_lines |-> para_lines]
           ELSE ParagraphLoopNoTable(ls, k + 1, Append(para_lines, cur))

RECURSIVE ParagraphLoop(_, _, _)
\* the collecting loop of the paragraph branch
ParagraphLoop(ls, k, para_lines) ==
  IF k > Len(ls) THEN [i |-> k, para_lines |-> para_lines]
  ELSE LET cur == strip(ls[k])
       IN  IF \/ cur = <<>>
              \/ HeadingPrefixRe(cur)
              \/ startswith(cur, <<"!", "[">>)
              \/ startswith(cur, <<">">>)
              \/ _is_table_candidate(ls, k)
              \/ OrderedRe(cur) > 0
              \/ UnorderedRe(cur) > 0
           THEN [i |-> k, para_lines |-> para_lines]
           ELSE ParagraphLoop(ls, k + 1, Append(para_lines, cur))

\* a result list that grows at the front
EmitFront(seq, b) == <<b>> \o seq

\* blocks.append(b)
Emit(seq, b) == Append(seq, b)

(***************************************************************************)
(* The state machine: one action per branch of the main scan loop          *)
(***************************************************************************)
Inputs ==
  { join(ls, <<NL>>) : ls \in UNION { [1..n -> LineSet] : n \in 0..MaxLines } }

Init ==
  /\ markdown \in Inputs
  /\ lines = <<>>
  /\ i = 1
  /\ blocks = <<>>
  /\ span = <<>>
  /\ pc = "start"
  /\ inline = <<>> /\ tokens = <<>> /\ tok = 1 /\ runs = <<>>
  /\ HeadingIdle
  /\ ImageIdle
  /\ TocIdle

\* if not markdown: return []
ReturnEmpty ==
  /\ pc = "start"
  /\ markdown = <<>>
  /\ pc' = "done"
  /\ UNCHANGED <<helperVars, inline, tokens, tok, runs, markdown, lines, i, blocks, span>>

\* text = _strip_code_blocks(markdown); lines = text.split('\n'); i = 0
Begin ==
  /\ pc = "start"
  /\ markdown # <<>>
  /\ lines' = split(_strip_code_blocks(markdown), NL)
  /\ i' = 1
  /\ pc' = "scan"
  /\ UNCHANGED <<helperVars, inline, tokens, tok, runs, markdown, blocks, span>>

Scanning == pc = "scan" /\ i <= Len(lines) /\ Len(blocks) < MaxBlocks

trimmed == strip(lines[i])

\* the branch tests with the table test made before the heading test
BranchTableFirst ==
  IF trimmed = <<>> THEN "blank"
  ELSE IF _is_table_candidate(lines, i) THEN "table"
  ELSE IF HeadingRe(trimmed).ok THEN "heading"
  ELSE IF ImageMatch(trimmed).ok THEN "image"
  ELSE IF OrderedRe(trimmed) > 0 THEN "ordered"
  ELSE IF UnorderedRe(trimmed) > 0 THEN "unordered"
  ELSE "paragraph"

\* the branch tests with the list tests made before the table test
BranchListFirst ==
  IF trimmed = <<>> THEN "blank"
  ELSE IF HeadingRe(trimmed).ok THEN "heading"
  ELSE IF ImageMatch(trimmed).ok THEN "image"
  ELSE IF OrderedRe(trimmed) > 0 THEN "ordered"
  ELSE IF UnorderedRe(trimmed) > 0 THEN "unordered"
  ELSE IF _is_table_candidate(lines, i) THEN "table"
  ELSE "paragraph"

\* which branch of the scan loop takes the line at i: the tests of the loop
\* body in the order the code makes them
Branch ==
  IF trimmed = <<>> THEN "blank"
  ELSE IF HeadingRe(trimmed).ok THEN "heading"
  ELSE IF ImageMatch(trimmed).ok THEN "image"
  ELSE IF _is_table_candidate(lines, i) THEN "table"
  ELSE IF OrderedRe(trimmed) > 0 THEN "ordered"
  ELSE IF UnorderedRe(trimmed) > 0 THEN "unordered"
  ELSE "paragraph"

\* the common effect of a branch that appends block b and moves i to k
Advance(b, k) ==
  /\ blocks' = Emit(blocks, b)
  /\ span' = Emit(span, [from |-> i, to |-> k - 1])
  /\ i' = k
  /\ UNCHANGED <<helperVars, inline, tokens, tok, runs, markdown, lines, pc>>

SkipBlank ==
  /\ Scanning
  /\ Branch = "blank"
  /\ i' = i + 1
  /\ UNCHANGED <<helperVars, inline, tokens, tok, runs, markdown, lines, blocks, span, pc>>

Heading ==
  /\ Scanning
  /\ Branch = "heading"
  /\ Advance(MdHeading(HeadingRe(trimmed).level, HeadingRe(trimmed).text), i + 1)

Image ==
  /\ Scanning
  /\ Branch = "image"
  /\ Advance(MdImage(ImageMatch(trimmed).alt, ImageMatch(trimmed).url), i + 1)

Table ==
  /\ Scanning
  /\ Branch = "table"
  /\ LET r == TableRows(lines, i + 2, <<>>)
     IN  Advance(MdTable(_split_table_row(lines[i]), r.rows), r.i)

OrderedList ==
  /\ Scanning
  /\ Branch = "ordered"
  /\ LET r == OrderedLoop(lines, i, <<>>)
     IN  Advance(MdList(TRUE, r.items), r.i)

UnorderedList ==
  /\ Scanning
  /\ Branch = "unordered"
  /\ LET r == UnorderedLoop(lines, i, <<>>)
     IN  Advance(MdList(FALSE, r.items), r.i)

Paragraph ==
  /\ Scanning
  /\ Branch = "paragraph"
  /\ LET r == ParagraphLoop(lines, i, <<>>)
     IN  Advance(MdParagraph(join(r.para_lines, <<" ">>)), r.i)

\* the result list cannot grow any further: blocks.append raises MemoryError
RaiseMemoryError ==
  /\ pc = "scan"
  /\ i <= Len(lines)
  /\ Len(blocks) >= MaxBlocks
  /\ pc' = "raised"
  /\ UNCHANGED <<helperVars, inline, tokens, tok, runs, markdown, lines, i, blocks, span>>

\* the scan loop ends: return blocks
Return ==
  /\ pc = "scan"
  /\ i > Len(lines)
  /\ pc' = "done"
  /\ UNCHANGED <<helperVars, inline, tokens, tok, runs, markdown, lines, i, blocks, span>>

Next ==
  \/ ReturnEmpty
  \/ Begin
  \/ SkipBlank
  \/ Heading
  \/ Image
  \/ Table
  \/ OrderedList
  \/ UnorderedList
  \/ Paragraph
  \/ RaiseMemoryError
  \/ Return

Spec == Init /\ [][Next]_vars

\* documents with nested list items, wide table rows and fenced code
DocLineSet ==
  { LnBlank, LnH1, LnImagePadded, LnQuote, LnRow, LnSep1, LnRow3, LnOrdered,
    LnItemPipe, LnItemIn2, LnItemIn4, LnText, LnFence, LnCode }

DocInputs ==
  { join(ls, <<NL>>) : ls \in UNION { [1..n -> DocLineSet] : n \in 0..MaxLines } }

InitDoc ==
  /\ markdown \in DocInputs
  /\ lines = <<>>
  /\ i = 1
  /\ blocks = <<>>
  /\ span = <<>>
  /\ pc = "start"
  /\ inline = <<>> /\ tokens = <<>> /\ tok = 1 /\ runs = <<>>
  /\ HeadingIdle
  /\ ImageIdle
  /\ TocIdle

SpecDoc == InitDoc /\ [][Next]_vars

\* the parser runs to completion once called
FairSpec == Spec /\ WF_vars(Next)

TypeOK ==
  /\ pc \in {"start", "scan", "done", "raised", "inline", "tokens", "inline_done",
            "heading", "leading", "following", "returned",
            "image", "jpeg", "sized", "index_error", "struct_error",
            "entries", "toc", "body", "built"}
  /\ i \in 1..(MaxLines + 1)
  /\ Len(blocks) <= MaxBlocks
  /\ Len(span) = Len(blocks)

(***************************************************************************)
(* Vocabulary of the properties                                            *)
(***************************************************************************)
Finished == pc \in {"done", "raised"}
AtLine == pc = "scan" /\ i <= Len(lines)
LastBlock(bs) == bs[Len(bs)]
Chars(s) == { s[j] : j \in 1..Len(s) }
IsBlank(l) == Chars(l) \subseteq Whitespace
Covers(b, k) == span[b].from <= k /\ k <= span[b].to

\* block b carries the text of line k
Carries(b, k) ==
  LET blk == blocks[b]
      f == span[b].from
      ln == strip(lines[k])
  IN  /\ Covers(b, k)
      /\ CASE blk.type = "heading" -> endswith(ln, blk.text)
           [] blk.type = "image" -> find(ln, blk.alt) >= 0 /\ find(ln, blk.url) >= 0
           [] blk.type = "table" ->
                \/ k = f /\ blk.headers = _split_table_row(lines[k])
                \/ k >= f + 2 /\ k - f - 1 <= Len(blk.rows)
                   /\ blk.rows[k - f - 1] = _split_table_row(lines[k])
           [] blk.type = "list" ->
                \E j \in 1..Len(blk.items) :
                  endswith(ln, IF blk.ordered THEN blk.items[j] ELSE blk.items[j].text)
           [] blk.type = "paragraph" -> find(blk.text, ln) >= 0

\* line k was consumed as the separator line of a table
IsSeparatorOfTable(k) ==
  \E b \in 1..Len(blocks) : blocks[b].type = "table" /\ k = span[b].from + 1

(***************************************************************************)
(* Properties                                                              *)
(***************************************************************************)

\* C1: the parser returns without raising, because every pass of the main
\* scan loop either skips a blank line or consumes at least one line
C1_EveryPassConsumes ==
  [][pc = "scan" => (i' > i \/ pc' = "done")]_vars

\* C2: an input made of one line that begins with "![" but fails the image
\* pattern parses to exactly one Paragraph block holding the literal line
C2_ImageFallback ==
  (/\ Len(lines) = 1
   /\ startswith(lines[1], <<"!", "[">>)
   /\ ~ImageMatch(lines[1]).ok)
  => /\ pc # "raised"
     /\ blocks # <<>> => blocks = <<MdParagraph(lines[1])>>
     /\ pc = "done" => blocks # <<>>

\* C3: a line beginning with ">" that no specialised matcher claims becomes
\* its own Paragraph block with the ">" kept, and is never absorbed into the
\* paragraph collected before it
C3_QuoteOwnParagraph ==
  [][/\ (AtLine /\ startswith(trimmed, <<">">>) /\ ~_is_table_candidate(lines, i))
        => (blocks' = Append(blocks, MdParagraph(trimmed)) /\ i' = i + 1)
     /\ (AtLine /\ Len(blocks') > Len(blocks) /\ LastBlock(blocks').type = "paragraph")
        => \A k \in (i + 1)..(i' - 1) : ~startswith(strip(lines[k]), <<">">>)
    ]_vars

\* C4: when the parser has finished, every non-blank line other than a table
\* separator has its text in exactly one emitted block
C4_ContentPreserved ==
  Finished =>
    \A k \in 1..Len(lines) :
      (~IsBlank(lines[k]) /\ ~IsSeparatorOfTable(k))
      => Cardinality({ b \in 1..Len(blocks) : Carries(b, k) }) = 1

\* C5: blocks are returned in source order, and a heading line, a paragraph
\* line and a list item give exactly Heading, Paragraph, List
C5_SourceOrder ==
  /\ Len(span) = Len(blocks)
  /\ \A a, b \in 1..Len(blocks) : span[a].from < span[b].from => a < b
  /\ \A b \in 1..Len(blocks) : blocks[b].type # "paragraph" => Carries(b, span[b].from)
  /\ (pc = "done" /\ lines = <<LnH1, LnText, LnItemPipe>>)
     => /\ Len(blocks) = 3
        /\ blocks[1] = MdHeading(1, <<"h">>)
        /\ blocks[2] = MdParagraph(<<"p">>)
        /\ blocks[3] = MdList(FALSE, <<MdListItem(<<"a", "|", "b">>, 0)>>)

C5_Witness ==
  pc = "done" /\ lines = <<LnH1, LnText, LnItemPipe>> /\ Len(blocks) = 3

\* t is n '#', then w whitespace characters, then content
IsHeadingText(t, n, w) ==
  /\ n + w < Len(t)
  /\ \A j \in 1..n : t[j] = "#"
  /\ \A j \in (n + 1)..(n + w) : t[j] \in Whitespace
  /\ t[n + w + 1] \notin Whitespace

HeadingShaped(t) == \E n \in 1..6, w \in 1..Len(t) : IsHeadingText(t, n, w)

\* C6: a scanned line of 1 to 6 '#', whitespace and content gives exactly one
\* Heading block with level the number of '#' and text the trimmed remainder,
\* and consumes that one line; any other scanned line gives no Heading block
C6_Heading ==
  [][AtLine =>
       /\ \A n \in 1..6, w \in 1..Len(trimmed) :
            IsHeadingText(trimmed, n, w)
            => /\ blocks' = Append(blocks,
                              MdHeading(n, SubSeq(trimmed, n + w + 1, Len(trimmed))))
               /\ i' = i + 1
       /\ ~HeadingShaped(trimmed)
          => ~(Len(blocks') > Len(blocks) /\ LastBlock(blocks').type = "heading")
       /\ \A b \in 1..Len(blocks') :
            blocks'[b].type = "heading" => blocks'[b].level \in 1..6
    ]_vars

C6_Witness ==
  /\ pc = "done"
  /\ lines = <<LnH2Pipe, LnSevenHash, LnNoSpace>>
  /\ blocks[1] = MdHeading(2, <<"h", "|", "x">>)
  /\ Len(blocks) = 2 /\ blocks[2].type = "paragraph"

\* C7: a line that matches the heading pattern is never absorbed into a
\* Table, List or Paragraph block, wherever it occurs
C7_HeadingWins ==
  \A b \in 1..Len(blocks) :
    \A k \in span[b].from..span[b].to :
      HeadingRe(strip(lines[k])).ok => blocks[b].type = "heading"

\* C7 as amended: a line that matches the heading pattern is emitted as a
\* Heading block wherever a block starts, also when it is a table-header
\* candidate, and is never absorbed into a List or Paragraph block; only as a
\* pipe-bearing line after the separator of a running table is it a data row
C7_HeadingWinsAtBlockStart ==
  \A b \in 1..Len(blocks) :
    \A k \in span[b].from..span[b].to :
      HeadingShaped(strip(lines[k]))
      => \/ /\ blocks[b].type = "heading"
            /\ k = span[b].from /\ k = span[b].to
         \/ /\ blocks[b].type = "table"
            /\ k >= span[b].from + 2
            /\ "|" \in Chars(lines[k])

C7_Witness ==
  /\ pc = "done"
  /\ lines = <<LnText, LnH2Pipe, LnSep1>>
  /\ Len(blocks) = 3
  /\ blocks[1] = MdParagraph(<<"p">>)
  /\ blocks[2] = MdHeading(2, <<"h", "|", "x">>)
  /\ blocks[3].type = "paragraph"

IsListItem(l) == OrderedRe(strip(l)) > 0 \/ UnorderedRe(strip(l)) > 0

\* C8: a line that is both a list item and a table-header candidate is
\* emitted as the header of a Table block, never as a List item
C8_TableBeforeList ==
  \A b \in 1..Len(blocks) :
    \A k \in span[b].from..span[b].to :
      (/\ OrderedRe(strip(lines[k])) > 0 \/ UnorderedRe(strip(lines[k])) > 0
       /\ _is_table_candidate(lines, k))
      => (blocks[b].type = "table" /\ k = span[b].from)

\* C8 as amended: a line that is both a list item and a table-header
\* candidate is emitted as the header of a Table block wherever a block
\* starts; it is a List item only as the continuation of a running list, and
\* a data row only inside a running table
C8_TableBeforeListAtBlockStart ==
  \A b \in 1..Len(blocks) :
    \A k \in span[b].from..span[b].to :
      (IsListItem(lines[k]) /\ _is_table_candidate(lines, k))
      => \/ blocks[b].type = "table" /\ k = span[b].from
         \/ blocks[b].type = "table" /\ k >= span[b].from + 2
         \/ blocks[b].type = "list" /\ k > span[b].from

C8_Witness ==
  /\ pc = "done"
  /\ lines = <<LnText, LnItemPipe, LnSep3>>
  /\ Len(blocks) = 2
  /\ blocks[2] = MdTable(<<<<"-", " ", "a">>, <<"b">>>>, <<>>)

\* the pipe-separated pieces of a line, after one leading and one trailing
\* pipe are removed: piece j lies between the (j-1)-th and the j-th pipe
RawCells(l) ==
  LET t == strip(l)
      a == IF Len(t) >= 1 /\ t[1] = "|" THEN 2 ELSE 1
      z == IF Len(t) >= a /\ t[Len(t)] = "|" THEN Len(t) - 1 ELSE Len(t)
      P == { p \in a..z : t[p] = "|" }
      Nth(j) == IF j = 0 THEN a - 1
                ELSE IF j = Cardinality(P) + 1 THEN z + 1
                ELSE CHOOSE p \in P : Cardinality({ q \in P : q < p }) = j - 1
  IN  [j \in 1..(Cardinality(P) + 1) |-> SubSeq(t, Nth(j - 1) + 1, Nth(j) - 1)]

CellsOf(l) == [j \in 1..Len(RawCells(l)) |-> strip(RawCells(l)[j])]

\* a cell of optional colons around at least m dashes (whitespace around the
\* cell ignored)
IsDashCell(c, m) ==
  LET core == strip(c)
      x == IF core # <<>> /\ core[1] = ":" THEN Drop(core, 1) ELSE core
      y == IF x # <<>> /\ x[Len(x)] = ":" THEN Take(x, Len(x) - 1) ELSE x
  IN  Len(y) >= m /\ Chars(y) = {"-"}

\* a separator line of at least c cells with at least m dashes each
IsSeparatorLine(l, m, c) ==
  /\ Len(RawCells(l)) >= c
  /\ \A j \in 1..Len(RawCells(l)) : IsDashCell(RawCells(l)[j], m)

\* C9: a table-header candidate gives one Table block for the whole run:
\* headers and rows are the trimmed cells of their lines, the header and the
\* separator are consumed, and the run stops before the first blank line,
\* line without a pipe, or the end of the input
C9_TableRun ==
  [][(/\ AtLine
      /\ ~IsBlank(lines[i]) /\ ~HeadingShaped(trimmed) /\ ~ImageMatch(trimmed).ok
      /\ "|" \in Chars(lines[i])
      /\ i < Len(lines) /\ IsSeparatorLine(lines[i + 1], 1, 2))
     => /\ Len(blocks') = Len(blocks) + 1
        /\ SubSeq(blocks', 1, Len(blocks)) = blocks
        /\ LastBlock(blocks').type = "table"
        /\ LastBlock(blocks').headers = CellsOf(lines[i])
        /\ i' >= i + 2 /\ i' <= Len(lines) + 1
        /\ Len(LastBlock(blocks').rows) = i' - i - 2
        /\ \A k \in (i + 2)..(i' - 1) :
             /\ ~IsBlank(lines[k])
             /\ "|" \in Chars(lines[k])
             /\ LastBlock(blocks').rows[k - i - 1] = CellsOf(lines[k])
        /\ i' <= Len(lines) => (IsBlank(lines[i']) \/ "|" \notin Chars(lines[i']))
    ]_vars

C9_Witness ==
  /\ pc = "done"
  /\ lines = <<LnRow, LnSep3, LnRow>>
  /\ blocks = << MdTable(<<<<"a">>, <<"b">>>>, << <<<<"a">>, <<"b">>>> >>) >>

\* C10 as claimed: a line with a pipe is a table-header candidate exactly when
\* the next line is a separator of one or more cells of three or more dashes
C10_SeparatorThreeDashes ==
  \A idx \in 1..Len(lines) :
    _is_table_candidate(lines, idx)
    <=> (/\ "|" \in Chars(lines[idx])
         /\ idx < Len(lines)
         /\ IsSeparatorLine(lines[idx + 1], 3, 1))

\* C10 as amended: a line with a pipe is a table-header candidate exactly when
\* the next line is a separator of two or more cells of one or more dashes;
\* only such lines start a Table block
C10_SeparatorOneDash ==
  /\ \A idx \in 1..Len(lines) :
       _is_table_candidate(lines, idx)
       <=> (/\ "|" \in Chars(lines[idx])
            /\ idx < Len(lines)
            /\ IsSeparatorLine(lines[idx + 1], 1, 2))
  /\ \A b \in 1..Len(blocks) :
       blocks[b].type = "table"
       => /\ "|" \in Chars(lines[span[b].from])
          /\ IsSeparatorLine(lines[span[b].from + 1], 1, 2)

C10_Witness ==
  /\ pc = "done"
  /\ lines = <<LnRow, LnSep1, LnSepOne>>
  /\ Len(blocks) = 1
  /\ blocks[1].type = "table"
  /\ blocks[1].rows = << <<<<"-", "-", "-">>>> >>

\* the number of pipe-separated cells of a line: one more than the pipes that
\* are left when one leading and one trailing pipe are set aside
CellCount(l) ==
  LET t == strip(l)
      a == IF Len(t) >= 1 /\ t[1] = "|" THEN 2 ELSE 1
      z == IF Len(t) >= a /\ t[Len(t)] = "|" THEN Len(t) - 1 ELSE Len(t)
  IN  Cardinality({ p \in a..z : t[p] = "|" }) + 1

\* C11: a data row of a Table has as many cells as its source line has
\* pipe-separated cells, whatever the width of the header: a two-cell header
\* with a three-cell row gives two headers and a row of three cells
C11_RowsKeepWidth ==
  /\ \A b \in 1..Len(blocks) :
       blocks[b].type = "table"
       => /\ Len(blocks[b].headers) = CellCount(lines[span[b].from])
          /\ \A j \in 1..Len(blocks[b].rows) :
               Len(blocks[b].rows[j]) = CellCount(lines[span[b].from + 1 + j])
  /\ (pc = "done" /\ lines = <<LnRow, LnSep1, LnRow3>>)
     => blocks = << MdTable(<<<<"a">>, <<"b">>>>, << <<<<"1">>, <<>>, <<"3">>>> >>) >>

C11_Witness ==
  /\ pc = "done"
  /\ lines = <<LnRow, LnSep1, LnRow3>>
  /\ Len(blocks) = 1
  /\ Len(blocks[1].headers) = 2
  /\ Len(blocks[1].rows) = 1 /\ Len(blocks[1].rows[1]) = 3

\* t begins with digits, a dot and whitespace
ItemOrdered(t) ==
  \E d \in 1..Len(t) :
    /\ \A j \in 1..d : t[j] \in Digits
    /\ Len(t) >= d + 2 /\ t[d + 1] = "." /\ t[d + 2] \in Whitespace

\* t begins with a dash or star and whitespace
ItemUnordered(t) == Len(t) >= 2 /\ t[1] \in {"-", "*"} /\ t[2] \in Whitespace

\* line l is an item of the kind of list block b
SameKindItem(b, l) ==
  IF blocks[b].ordered THEN ItemOrdered(strip(l)) ELSE ItemUnordered(strip(l))

\* the first non-blank line after line k, 0 when there is none
NextNonBlank(k) ==
  LET later == { n \in (k + 1)..Len(lines) : ~IsBlank(lines[n]) }
  IN  IF later = {} THEN 0 ELSE CHOOSE n \in later : \A m \in later : n <= m

C13_ListEnds ==
  /\ \A b \in 1..Len(blocks) :
       blocks[b].type = "list"
       => /\ \A k \in span[b].from..span[b].to :
               IsBlank(lines[k]) \/ SameKindItem(b, lines[k])
          /\ ~IsBlank(lines[span[b].to])
          /\ Len(blocks[b].items)
               = Cardinality({ k \in span[b].from..span[b].to : ~IsBlank(lines[k]) })
          /\ b < Len(blocks) => span[b + 1].from = NextNonBlank(span[b].to)
  /\ (pc = "done" /\ lines = <<LnItemPipe, LnBlank, LnText>>)
     => blocks = << MdList(FALSE, << MdListItem(<<"a", "|", "b">>, 0) >>),
                    MdParagraph(<<"p">>) >>

C13_Witness ==
  /\ pc = "done"
  /\ lines = <<LnItemPipe, LnBlank, LnText>>
  /\ Len(blocks) = 2
  /\ blocks[1].type = "list" /\ blocks[2].type = "paragraph"

\* C14: every List block, ordered or unordered, has at least one item, and
\* its first item is the line the list started at
C14_ListNeverEmpty ==
  \A b \in 1..Len(blocks) :
    blocks[b].type = "list"
    => /\ Len(blocks[b].items) >= 1
       /\ SameKindItem(b, lines[span[b].from])
       /\ span[b].to >= span[b].from

C14_Witness ==
  /\ pc = "done"
  /\ lines = <<LnOrdered, LnItemIn2>>
  /\ Len(blocks) = 2
  /\ blocks[1].type = "list" /\ blocks[1].ordered /\ Len(blocks[1].items) = 1
  /\ blocks[2].type = "list" /\ ~blocks[2].ordered /\ Len(blocks[2].items) = 1

\* the lines of the input as written
InputLines == split(markdown, NL)

\* the number of blank lines the input begins with
LeadingBlankLines ==
  LET solid == { n \in 1..Len(InputLines) : ~IsBlank(InputLines[n]) }
  IN  IF solid = {} THEN Len(InputLines)
      ELSE (CHOOSE n \in solid : \A m \in solid : n <= m) - 1

\* the line of the j-th item of list block b
ItemLine(b, j) ==
  CHOOSE k \in span[b].from..span[b].to :
    /\ ~IsBlank(lines[k])
    /\ Cardinality({ m \in span[b].from..k : ~IsBlank(lines[m]) }) = j

\* C15: the indent of every unordered item is min(k div 2, 2) for the k
\* whitespace characters its line begins with in the input as written, also
\* for an item on the first line of the input
C15_IndentFromRawLine ==
  Backquote \notin Chars(markdown)
  => \A b \in 1..Len(blocks) :
       (blocks[b].type = "list" /\ ~blocks[b].ordered)
       => \A j \in 1..Len(blocks[b].items) :
            blocks[b].items[j].indent
              = Min(LeadRun(InputLines[ItemLine(b, j) + LeadingBlankLines], Whitespace)
                      \div 2, 2)

\* p is the place of the first "](" of t
FirstBracket(t, p) ==
  /\ p + 1 <= Len(t) /\ t[p] = "]" /\ t[p + 1] = "("
  /\ \A q \in 1..(p - 1) : ~(t[q] = "]" /\ t[q + 1] = "(")

\* C16: a scanned line that starts with "![", contains "](", ends with ")"
\* and has a non-empty url gives exactly one Image block, alt the trimmed text
\* up to the first "](" and url the trimmed text from there to the final ")",
\* and consumes that one line
C16_Image ==
  [][AtLine =>
       \A p \in 1..Len(trimmed) :
         (/\ Len(trimmed) >= 2 /\ trimmed[1] = "!" /\ trimmed[2] = "["
          /\ FirstBracket(trimmed, p)
          /\ trimmed[Len(trimmed)] = ")"
          /\ ~IsBlank(SubSeq(trimmed, p + 2, Len(trimmed) - 1)))
         => /\ blocks' = Append(blocks,
                           MdImage(strip(SubSeq(trimmed, 3, p - 1)),
                                   strip(SubSeq(trimmed, p + 2, Len(trimmed) - 1))))
            /\ i' = i + 1
    ]_vars

C16_Witness ==
  /\ pc = "done"
  /\ lines = <<LnImagePadded>>
  /\ blocks = << MdImage(<<"a">>, <<"u">>) >>

\* line k has a pipe and is followed by a separator line
HeaderCandidate(k) ==
  /\ "|" \in Chars(lines[k])
  /\ k < Len(lines)
  /\ IsSeparatorLine(lines[k + 1], 1, 2)

\* line k ends a paragraph
StopsParagraph(k) ==
  LET t == strip(lines[k])
  IN  \/ IsBlank(lines[k])
      \/ HeadingShaped(t)
      \/ ItemOrdered(t)
      \/ ItemUnordered(t)
      \/ HeaderCandidate(k)
      \/ (Len(t) >= 2 /\ t[1] = "!" /\ t[2] = "[")
      \/ (Len(t) >= 1 /\ t[1] = ">")

\* the first line from k on that ends a paragraph, past the end if none does
ParagraphEnd(k) ==
  LET stops == { e \in k..Len(lines) : StopsParagraph(e) }
  IN  IF stops = {} THEN Len(lines) + 1
      ELSE CHOOSE e \in stops : \A m \in stops : e <= m

\* C17: the paragraph fallback collects the lines from the current one up to
\* the first line that is blank, a heading, a list item, a table-header
\* candidate or begins with "![" or ">", and emits one Paragraph whose text is
\* those lines trimmed and joined by single spaces
C17_ParagraphRun ==
  [][(/\ AtLine
      /\ ~IsBlank(lines[i])
      /\ ~HeadingShaped(trimmed) /\ ~ImageMatch(trimmed).ok /\ ~HeaderCandidate(i)
      /\ ~ItemOrdered(trimmed) /\ ~ItemUnordered(trimmed)
      /\ Len(blocks) < MaxBlocks)
     => /\ i' = ParagraphEnd(i)
        /\ blocks' = Append(blocks,
             MdParagraph(join([k \in 1..(ParagraphEnd(i) - i) |-> strip(lines[i + k - 1])],
                              <<" ">>)))
    ]_vars

C17_Witness ==
  /\ lines = <<LnText, LnCode, LnQuote>>
  /\ i = 3
  /\ blocks = << MdParagraph(<<"p", " ", "z">>) >>

\* the characters of the text fields of a block
BlockChars(blk) ==
  CASE blk.type = "heading" -> Chars(blk.text)
    [] blk.type = "paragraph" -> Chars(blk.text)
    [] blk.type = "image" -> Chars(blk.alt) \cup Chars(blk.url)
    [] blk.type = "table" ->
         UNION ({ Chars(blk.headers[c]) : c \in 1..Len(blk.headers) }
                \cup UNION { { Chars(blk.rows[r][c]) : c \in 1..Len(blk.rows[r]) } :
                               r \in 1..Len(blk.rows) })
    [] blk.type = "list" ->
         UNION { Chars(IF blk.ordered THEN blk.items[j] ELSE blk.items[j].text) :
                   j \in 1..Len(blk.items) }

\* input line k lies in a fenced region: an odd number of fence lines comes
\* before it and at least one after it, or it is itself a paired fence line
InFencedRegion(k) ==
  LET before == Cardinality({ m \in 1..(k - 1) : InputLines[m] = LnFence })
      after == Cardinality({ m \in (k + 1)..Len(InputLines) : InputLines[m] = LnFence })
  IN  IF InputLines[k] = LnFence
      THEN before % 2 = 1 \/ after >= 1
      ELSE before % 2 = 1 /\ after >= 1

\* input line k opens a fenced region
OpensRegion(k) ==
  /\ InputLines[k] = LnFence
  /\ InFencedRegion(k)
  /\ Cardinality({ m \in 1..(k - 1) : InputLines[m] = LnFence }) % 2 = 0

\* the input lines as written with every fenced region cut out; the line a
\* region opened on stays, emptied
RECURSIVE OutsideFrom(_)
OutsideFrom(k) ==
  IF k > Len(InputLines) THEN <<>>
  ELSE IF OpensRegion(k) THEN <<LnBlank>> \o OutsideFrom(k + 1)
  ELSE IF InFencedRegion(k) THEN OutsideFrom(k + 1)
  ELSE <<InputLines[k]>> \o OutsideFrom(k + 1)

\* ls without the blank lines it begins and ends with
WithoutOuterBlankLines(ls) ==
  LET solid == { n \in 1..Len(ls) : ~IsBlank(ls[n]) }
  IN  IF solid = {} THEN <<>>
      ELSE SubSeq(ls, CHOOSE n \in solid : \A m \in solid : n <= m,
                      CHOOSE n \in solid : \A m \in solid : n >= m)

\* no text of a fenced region reaches a block: when every line "z" of the
\* input lies in a fenced region, no block carries a "z"
FencedTextDropped ==
  (\A k \in 1..Len(InputLines) : InputLines[k] = LnCode => InFencedRegion(k))
  => \A b \in 1..Len(blocks) : "z" \notin BlockChars(blocks[b])

\* the scanned lines are the input lines outside fenced regions, as written,
\* without the blank lines at both ends
OutsideTextAsWritten ==
  pc \in {"scan", "done", "raised"} /\ markdown # <<>>
  => IF WithoutOuterBlankLines(OutsideFrom(1)) = <<>>
     THEN \A k \in 1..Len(lines) : IsBlank(lines[k])
     ELSE lines = WithoutOuterBlankLines(OutsideFrom(1))

\* C18: fenced regions are removed before scanning, so that no fenced text
\* reaches a block, and the text outside them is scanned as written apart
\* from the blank lines at both ends of the input
C18_FencesRemovedRestAsWritten ==
  FencedTextDropped /\ OutsideTextAsWritten

\* the input has no line that is neither blank nor part of a fenced region
NoContent ==
  \A k \in 1..Len(InputLines) : IsBlank(InputLines[k]) \/ InFencedRegion(k)

\* C19: an input that is empty, or has only blank lines and complete fenced
\* regions, is parsed to the empty sequence of blocks
C19_NoContentNoBlocks ==
  NoContent => /\ blocks = <<>>
               /\ pc # "raised"
               /\ pc = "scan" => \A k \in 1..Len(lines) : IsBlank(lines[k])

C19_Witness ==
  /\ pc = "done"
  /\ InputLines = <<LnFence, LnCode, LnFence>>
  /\ blocks = <<>>

(***************************************************************************)
(* Inline formatting: _INLINE_TOKEN_RE, _strip_inline_md and               *)
(* _parse_inline_formatting                                                *)
(***************************************************************************)
InlineRun(text, bold, italic) == [text |-> text, bold |-> bold, italic |-> italic]

RECURSIVE RunOutside(_, _)
\* length of the longest prefix of s made of characters outside X
RunOutside(s, X) ==
  IF s # <<>> /\ Head(s) \notin X THEN 1 + RunOutside(Tail(s), X) ELSE 0

\* the pattern d{k}[^excl]+d{k} tried at place p of s: the length of the
\* match, 0 for none.  excl holds d, so the content ends where the next d
\* stands and a lazy and a greedy content match the same text
Delimited(s, p, d, k, excl) ==
  LET r == IF p + k - 1 <= Len(s) THEN RunOutside(Drop(s, p + k - 1), excl) ELSE 0
      q == p + k + r
  IN  IF /\ p + k - 1 <= Len(s)
         /\ \A j \in p..(p + k - 1) : s[j] = d
         /\ r >= 1
         /\ q + k - 1 <= Len(s)
         /\ \A j \in q..(q + k - 1) : s[j] = d
      THEN 2 * k + r
      ELSE 0

\* the alternatives of _INLINE_TOKEN_RE, in the order they are tried
TokenPatterns ==
  << [d |-> Backquote, k |-> 1, excl |-> {Backquote}],
     [d |-> "*", k |-> 3, excl |-> {"*"}],
     [d |-> "_", k |-> 3, excl |-> {"_"}],
     [d |-> "*", k |-> 2, excl |-> {"*"}],
     [d |-> "_", k |-> 2, excl |-> {"_"}],
     [d |-> "*", k |-> 1, excl |-> {"*", NL}],
     [d |-> "_", k |-> 1, excl |-> {"_", NL}] >>

\* _INLINE_TOKEN_RE tried at place p of s: the length of the match of the
\* first alternative that matches, 0 for none
_INLINE_TOKEN_RE(s, p) ==
  LET len(a) == Delimited(s, p, TokenPatterns[a].d, TokenPatterns[a].k,
                          TokenPatterns[a].excl)
      hits == { a \in 1..Len(TokenPatterns) : len(a) > 0 }
  IN  IF hits = {} THEN 0
      ELSE len(CHOOSE a \in hits : \A b \in hits : a <= b)

RECURSIVE SplitTokensLoseTail(_, _, _)
\* the split without the plain piece after the last match
SplitTokensLoseTail(s, p, from) ==
  IF p > Len(s) THEN << >>
  ELSE LET m == _INLINE_TOKEN_RE(s, p)
       IN  IF m > 0
           THEN << SubSeq(s, from, p - 1), SubSeq(s, p, p + m - 1) >>
                  \o SplitTokensLoseTail(s, p + m, p + m)
           ELSE SplitTokensLoseTail(s, p + 1, from)

RECURSIVE SplitTokens(_, _, _)
\* _INLINE_TOKEN_RE.split(s) from place p on; the plain piece in progress
\* begins at place from.  The pattern is one group, so the matched text is
\* kept between the plain pieces
SplitTokens(s, p, from) ==
  IF p > Len(s) THEN << SubSeq(s, from, Len(s)) >>
  ELSE LET m == _INLINE_TOKEN_RE(s, p)
       IN  IF m > 0
           THEN << SubSeq(s, from, p - 1), SubSeq(s, p, p + m - 1) >>
                  \o SplitTokens(s, p + m, p + m)
           ELSE SplitTokens(s, p + 1, from)

\* [t for t in tokens if t]
RECURSIVE DropEmpty(_)
DropEmpty(ts) ==
  IF ts = <<>> THEN <<>>
  ELSE IF Head(ts) = <<>> THEN DropEmpty(Tail(ts))
  ELSE <<Head(ts)>> \o DropEmpty(Tail(ts))

\* the patterns _strip_inline_md substitutes, in the order of its statements
StripPatterns ==
  << [d |-> Backquote, k |-> 1, excl |-> {Backquote}],
     [d |-> "*", k |-> 3, excl |-> {"*"}],
     [d |-> "_", k |-> 3, excl |-> {"_"}],
     [d |-> "*", k |-> 2, excl |-> {"*"}],
     [d |-> "_", k |-> 2, excl |-> {"_"}],
     [d |-> "*", k |-> 1, excl |-> {"*", NL}],
     [d |-> "_", k |-> 1, excl |-> {"_", NL}] >>

RECURSIVE ReSub(_, _)
\* re.sub(pattern, r'\1', s): every match, leftmost first and not
\* overlapping, is replaced by its content
ReSub(s, pat) ==
  IF s = <<>> THEN <<>>
  ELSE LET m == Delimited(s, 1, pat.d, pat.k, pat.excl)
       IN  IF m > 0
           THEN SubSeq(s, pat.k + 1, m - pat.k) \o ReSub(Drop(s, m), pat)
           ELSE <<Head(s)>> \o ReSub(Tail(s), pat)

RECURSIVE StripFrom(_, _)
\* the substitutions of _strip_inline_md from the a-th on
StripFrom(t, a) ==
  IF a > Len(StripPatterns) THEN t
  ELSE StripFrom(ReSub(t, StripPatterns[a]), a + 1)

_strip_inline_md(t) == StripFrom(t, 1)

\* re.match(r'^d{k}(.+)d{k}$', token): group 1, empty for no match.  "$"
\* also matches before a newline that ends the token; "." matches no newline
Wrapped(token, d, k) ==
  LET core == IF token # <<>> /\ token[Len(token)] = NL
              THEN Take(token, Len(token) - 1) ELSE token
      group == SubSeq(core, k + 1, Len(core) - k)
  IN  IF /\ Len(core) >= 2 * k + 1
         /\ \A j \in 1..k : core[j] = d /\ core[Len(core) + 1 - j] = d
         /\ NL \notin Chars(group)
      THEN group
      ELSE <<>>

\* m = re.match(star pattern, token) or re.match(underscore pattern, token)
WrappedEither(token, k) ==
  IF Wrapped(token, "*", k) # <<>> THEN Wrapped(token, "*", k)
  ELSE Wrapped(token, "_", k)

\* the branch of the token loop that takes the token
TokenBranch(token) ==
  IF WrappedEither(token, 3) # <<>> THEN "bold_italic"
  ELSE IF WrappedEither(token, 2) # <<>> THEN "bold"
  ELSE IF WrappedEither(token, 1) # <<>> THEN "italic"
  ELSE IF Wrapped(token, Backquote, 1) # <<>> THEN "code"
  ELSE "plain"

\* the pieces inline texts are put together from
InlinePieces ==
  { <<"*">>, <<"*", "*">>, <<"*", "*", "*">>, <<"_">>, <<"_", "_", "_">>,
    <<Backquote>>, <<"a">>, <<"b">>, <<NL>> }

\* "**bold *and* more**"
NestedBold ==
  << "*", "*", "b", "o", "l", "d", " ", "*", "a", "n", "d", "*", " ",
     "m", "o", "r", "e", "*", "*" >>

InlineInputs ==
  { join(ps, <<>>) : ps \in UNION { [1..n -> InlinePieces] : n \in 0..MaxPieces } }
    \cup { NestedBold }

\* plain characters and well-formed tokens with marker-free content
TokenSegments ==
  { <<"a">>, <<"b">>, <<" ">>, <<NL>>,
    <<"*", "b", "*">>, <<"_", "a", "_">>,
    <<"*", "*", "a", "*", "*">>, <<"_", "_", "b", "_", "_">>,
    <<"*", "*", "*", "b", "*", "*", "*">>, <<"_", "_", "_", "a", "_", "_", "_">>,
    <<Backquote, "b", Backquote>>,
    <<"*", "*", "a", NL, "b", "*", "*">> }

TokenInputs ==
  { join(ps, <<>>) : ps \in UNION { [1..n -> TokenSegments] : n \in 0..MaxPieces } }

InitInline ==
  /\ inline \in InlineInputs
  /\ tokens = <<>>
  /\ tok = 1
  /\ runs = <<>>
  /\ pc = "inline"
  /\ markdown = <<>> /\ lines = <<>> /\ i = 1 /\ blocks = <<>> /\ span = <<>>
  /\ HeadingIdle
  /\ ImageIdle
  /\ TocIdle

\* tokens = _INLINE_TOKEN_RE.split(text); tokens = [t for t in tokens if t]
SplitText ==
  /\ pc = "inline"
  /\ tokens' = DropEmpty(SplitTokens(inline, 1, 1))
  /\ tok' = 1
  /\ runs' = <<>>
  /\ pc' = "tokens"
  /\ UNCHANGED <<helperVars, inline, markdown, lines, i, blocks, span>>

InToken == pc = "tokens" /\ tok <= Len(tokens)

\* if cleaned: runs.append(InlineRun(...)); then the next token
AppendRun(cleaned, bold, italic) ==
  /\ runs' = IF cleaned # <<>> THEN Append(runs, InlineRun(cleaned, bold, italic))
             ELSE runs
  /\ tok' = tok + 1
  /\ UNCHANGED <<helperVars, inline, tokens, pc, markdown, lines, i, blocks, span>>

TokenBoldItalic ==
  /\ InToken
  /\ TokenBranch(tokens[tok]) = "bold_italic"
  /\ AppendRun(_strip_inline_md(WrappedEither(tokens[tok], 3)), TRUE, TRUE)

TokenBold ==
  /\ InToken
  /\ TokenBranch(tokens[tok]) = "bold"
  /\ AppendRun(_strip_inline_md(WrappedEither(tokens[tok], 2)), TRUE, FALSE)

TokenItalic ==
  /\ InToken
  /\ TokenBranch(tokens[tok]) = "italic"
  /\ AppendRun(_strip_inline_md(WrappedEither(tokens[tok], 1)), FALSE, TRUE)

TokenCode ==
  /\ InToken
  /\ TokenBranch(tokens[tok]) = "code"
  /\ AppendRun(Wrapped(tokens[tok], Backquote, 1), FALSE, FALSE)

TokenPlain ==
  /\ InToken
  /\ TokenBranch(tokens[tok]) = "plain"
  /\ AppendRun(_strip_inline_md(tokens[tok]), FALSE, FALSE)

\* if not runs: runs.append(InlineRun(text=_strip_inline_md(text) or text))
NoRuns ==
  /\ pc = "tokens"
  /\ tok > Len(tokens)
  /\ runs = <<>>
  /\ runs' = << InlineRun(IF _strip_inline_md(inline) # <<>>
                          THEN _strip_inline_md(inline) ELSE inline, FALSE, FALSE) >>
  /\ pc' = "inline_done"
  /\ UNCHANGED <<helperVars, inline, tokens, tok, markdown, lines, i, blocks, span>>

\* return runs
ReturnRuns ==
  /\ pc = "tokens"
  /\ tok > Len(tokens)
  /\ runs # <<>>
  /\ pc' = "inline_done"
  /\ UNCHANGED <<helperVars, inline, tokens, tok, runs, markdown, lines, i, blocks, span>>

NextInline ==
  \/ SplitText
  \/ TokenBoldItalic
  \/ TokenBold
  \/ TokenItalic
  \/ TokenCode
  \/ TokenPlain
  \/ NoRuns
  \/ ReturnRuns

SpecInline == InitInline /\ [][NextInline]_vars

InitTokens ==
  /\ inline \in TokenInputs
  /\ tokens = <<>>
  /\ tok = 1
  /\ runs = <<>>
  /\ pc = "inline"
  /\ markdown = <<>> /\ lines = <<>> /\ i = 1 /\ blocks = <<>> /\ span = <<>>
  /\ HeadingIdle
  /\ ImageIdle
  /\ TocIdle

\* texts of plain characters and well-formed tokens
SpecTokens == InitTokens /\ [][NextInline]_vars

\* t holds a marked span: k marker characters d, then at least one character
\* and none of excl, then k marker characters d again
Marks(t, d, k, excl) ==
  \E p, q \in 1..Len(t) :
    /\ q - p + 1 >= 2 * k + 1
    /\ \A j \in 0..(k - 1) : t[p + j] = d /\ t[q - j] = d
    /\ \A j \in (p + k)..(q - k) : t[j] \notin excl

\* t holds one of the spans the inline markup is made of
HasMarkup(t) ==
  \/ Marks(t, Backquote, 1, {Backquote})
  \/ \E d \in {"*", "_"} :
       \/ Marks(t, d, 3, {d})
       \/ Marks(t, d, 2, {d})
       \/ Marks(t, d, 1, {d, NL})

\* C20: every inline text yields at least one run; a text without markup
\* yields exactly one unstyled run carrying the text as written, and the
\* empty text one unstyled run with empty text
C20_AlwaysARunPlainVerbatim ==
  pc = "inline_done"
  => /\ Len(runs) >= 1
     /\ inline = <<>> => runs = << InlineRun(<<>>, FALSE, FALSE) >>
     /\ ~HasMarkup(inline) => runs = << InlineRun(inline, FALSE, FALSE) >>

\* x holds no marker character
MarkerFree(x) == Chars(x) \cap {"*", "_", Backquote} = {}

\* k times the character d
Rep(d, k) == [j \in 1..k |-> d]

\* t is x between two delimiters of k characters d, x not empty
Encloses(t, d, k, x) ==
  /\ Len(t) >= 2 * k + 1
  /\ x = SubSeq(t, k + 1, Len(t) - k)
  /\ t = Rep(d, k) \o x \o Rep(d, k)

\* the content of the inline text, were it one token of k characters d
Content(k) == SubSeq(inline, k + 1, Len(inline) - k)

\* C21: a well-formed token around marker-free content x gives exactly one
\* run with text x: bold and italic for three markers, bold for two, italic
\* for one (whose content has no newline), unstyled for a code span
C21_TokenStyles ==
  pc = "inline_done"
  => /\ \A k \in 1..3 : \A d \in {"*", "_"} :
          (/\ Encloses(inline, d, k, Content(k))
           /\ MarkerFree(Content(k))
           /\ k = 1 => NL \notin Chars(Content(k)))
          => runs = << InlineRun(Content(k), k >= 2, k \in {1, 3}) >>
     /\ (Encloses(inline, Backquote, 1, Content(1)) /\ MarkerFree(Content(1)))
        => runs = << InlineRun(Content(1), FALSE, FALSE) >>

\* C22: "**bold *and* more**" yields exactly one run, bold and not italic,
\* with the text "bold and more"
C22_NestedCollapses ==
  pc = "inline_done" /\ inline = NestedBold
  => runs = << InlineRun(<< "b", "o", "l", "d", " ", "a", "n", "d", " ",
                            "m", "o", "r", "e" >>, TRUE, FALSE) >>

\* the first n characters of t are a well-formed token with marker-free
\* content: k markers d, the content, k markers d
TokenPrefix(t, n, d, k) ==
  /\ n <= Len(t)
  /\ Encloses(Take(t, n), d, k, SubSeq(t, k + 1, n - k))
  /\ MarkerFree(SubSeq(t, k + 1, n - k))
  /\ (k = 1 /\ d # Backquote) => NL \notin Chars(SubSeq(t, k + 1, n - k))

RECURSIVE Readings(_)
\* t read as plain characters and well-formed tokens, with the markers of
\* the tokens removed: every text such a reading of t gives, none if t is
\* not made of plain characters and well-formed tokens only
Readings(t) ==
  IF t = <<>> THEN { <<>> }
  ELSE (IF MarkerFree(<<Head(t)>>)
        THEN { <<Head(t)>> \o r : r \in Readings(Tail(t)) }
        ELSE {})
       \cup UNION { { SubSeq(t, m[2] + 1, m[1] - m[2]) \o r : r \in Readings(Drop(t, m[1])) } :
                      m \in { m \in (3..Len(t)) \X (1..3) :
                                \/ \E d \in {"*", "_"} : TokenPrefix(t, m[1], d, m[2])
                                \/ m[2] = 1 /\ TokenPrefix(t, m[1], Backquote, 1) } }

RECURSIVE RunsText(_)
\* the text fields of the runs rs, concatenated in order
RunsText(rs) == IF rs = <<>> THEN <<>> ELSE Head(rs).text \o RunsText(Tail(rs))

\* C23: for a text made only of plain characters and well-formed tokens
\* with marker-free content, the texts of the runs concatenated in order are
\* the text with the markers of its tokens removed and nothing else changed
C23_ContentPreserved ==
  pc = "inline_done" => \A r \in Readings(inline) : RunsText(runs) = r

C23_Witness ==
  /\ pc = "inline_done"
  /\ inline = << "a", "*", "b", "*", "*", "*", "a", "*", "*" >>
  /\ inline \in TokenInputs
  /\ runs = << InlineRun(<<"a">>, FALSE, FALSE), InlineRun(<<"b">>, FALSE, TRUE),
               InlineRun(<<"a">>, TRUE, FALSE) >>

\* C24: in a text that holds no complete marked span, every marker character
\* passes through: the runs carry the text as written, none of its
\* characters removed, and no run is styled
C24_LooseMarkersPassThrough ==
  pc = "inline_done" /\ ~HasMarkup(inline)
  => /\ RunsText(runs) = inline
     /\ \A r \in 1..Len(runs) : ~runs[r].bold /\ ~runs[r].italic

\* C25: _strip_inline_md is idempotent: applied to its own output it changes
\* nothing
C25_StripIdempotent ==
  _strip_inline_md(_strip_inline_md(inline)) = _strip_inline_md(inline)

(***************************************************************************)
(* _strip_redundant_heading                                                *)
(***************************************************************************)
\* a character left as it is
LowerCharKeep(c) == c

\* str.lower on one character
LowerChar(c) ==
  CASE c = "T" -> "t"
    [] c = "X" -> "x"
    [] OTHER -> c

lower(s) == [j \in 1..Len(s) |-> LowerChar(s[j])]

\* lines.pop(k), k counted from 1
Pop(ls, k) == SubSeq(ls, 1, k - 1) \o SubSeq(ls, k + 1, Len(ls))

\* a heading pattern of any level
RedundantHeadingReAnyLevel(l) ==
  LET h == LeadRun(l, {"#"})
      w == LeadRun(Drop(l, h), Whitespace)
  IN  IF h >= 1 /\ w >= 1 /\ Len(l) > h + w
      THEN [ok |-> TRUE, group |-> Drop(l, h + w)]
      ELSE [ok |-> FALSE, group |-> <<>>]

\* re.match(r'^##\s+(.+)$', l) on a line l: \s+ takes the whitespace after
\* "##" and gives back its last character when nothing else is left for (.+)
RedundantHeadingRe(l) ==
  LET w == LeadRun(Drop(l, 2), Whitespace)
  IN  IF startswith(l, <<"#", "#">>) /\ w >= 1 /\ Len(l) > 2 + w
      THEN [ok |-> TRUE, group |-> Drop(l, 2 + w)]
      ELSE IF startswith(l, <<"#", "#">>) /\ w >= 2 /\ Len(l) = 2 + w
      THEN [ok |-> TRUE, group |-> <<l[Len(l)]>>]
      ELSE [ok |-> FALSE, group |-> <<>>]

HBlank == <<>>
HSpace == <<" ">>
H2Upper == <<"#", "#", " ", "T">>
H2Lower == <<"#", "#", " ", " ", "t", " ">>
H1 == <<"#", " ", "T">>
H3 == <<"#", "#", "#", " ", "T">>
H2Indented == <<" ", "#", "#", " ", "T">>
H2Other == <<"#", "#", " ", "x">>
HText == <<"x">>
HTextIndented == <<" ", " ", "x">>

HeadLines ==
  { HBlank, HSpace, H2Upper, H2Lower, H1, H3, H2Indented, H2Other, HText,
    HTextIndented }

Titles == { <<"T">>, <<" ", "t">>, <<"X">> }

Contents ==
  { join(ls, <<NL>>) : ls \in UNION { [1..n -> HeadLines] : n \in 0..MaxLines } }

InitHeading ==
  /\ title \in Titles
  /\ content \in Contents
  /\ result = <<>>
  /\ lines = <<>>
  /\ i = 1
  /\ pc = "heading"
  /\ ImageIdle
  /\ TocIdle
  /\ markdown = <<>> /\ blocks = <<>> /\ span = <<>>
  /\ inline = <<>> /\ tokens = <<>> /\ tok = 1 /\ runs = <<>>

\* lines = content.split('\n'); i = 0
SplitContent ==
  /\ pc = "heading"
  /\ lines' = split(content, NL)
  /\ i' = 1
  /\ pc' = "leading"
  /\ UNCHANGED <<title, content, result, markdown, blocks, span, inline, tokens, tok, runs, imageVars, tocVars>>

\* while i < len(lines) and lines[i].strip() == '': i += 1
SkipLeadingBlank ==
  /\ pc = "leading"
  /\ i <= Len(lines)
  /\ strip(lines[i]) = <<>>
  /\ i' = i + 1
  /\ UNCHANGED <<title, content, result, lines, pc, markdown, blocks, span, inline, tokens, tok, runs, imageVars, tocVars>>

\* the first line with text is a "##" heading that repeats the title
Redundant ==
  /\ i <= Len(lines)
  /\ RedundantHeadingRe(lines[i]).ok
  /\ lower(strip(RedundantHeadingRe(lines[i]).group)) = lower(strip(title))

\* lines.pop(i)
PopHeading ==
  /\ pc = "leading"
  /\ i <= Len(lines)
  /\ strip(lines[i]) # <<>>
  /\ Redundant
  /\ lines' = Pop(lines, i)
  /\ pc' = "following"
  /\ UNCHANGED <<title, content, result, i, markdown, blocks, span, inline, tokens, tok, runs, imageVars, tocVars>>

\* while i < len(lines) and lines[i].strip() == '': lines.pop(i)
PopFollowingBlank ==
  /\ pc = "following"
  /\ i <= Len(lines)
  /\ strip(lines[i]) = <<>>
  /\ lines' = Pop(lines, i)
  /\ UNCHANGED <<title, content, result, i, pc, markdown, blocks, span, inline, tokens, tok, runs, imageVars, tocVars>>

\* return '\n'.join(lines).strip(), nothing removed
ReturnKept ==
  /\ pc = "leading"
  /\ IF i <= Len(lines) THEN strip(lines[i]) # <<>> /\ ~Redundant ELSE TRUE
  /\ result' = strip(join(lines, <<NL>>))
  /\ pc' = "returned"
  /\ UNCHANGED <<title, content, lines, i, markdown, blocks, span, inline, tokens, tok, runs, imageVars, tocVars>>

\* return '\n'.join(lines).strip(), the heading removed
ReturnStripped ==
  /\ pc = "following"
  /\ IF i <= Len(lines) THEN strip(lines[i]) # <<>> ELSE TRUE
  /\ result' = strip(join(lines, <<NL>>))
  /\ pc' = "returned"
  /\ UNCHANGED <<title, content, lines, i, markdown, blocks, span, inline, tokens, tok, runs, imageVars, tocVars>>

NextHeading ==
  \/ SplitContent
  \/ SkipLeadingBlank
  \/ PopHeading
  \/ PopFollowingBlank
  \/ ReturnKept
  \/ ReturnStripped

SpecHeading == InitHeading /\ [][NextHeading]_vars

ContentLines == split(content, NL)

\* the first line of the content that is not blank, 0 if there is none
FirstText ==
  LET solid == { k \in 1..Len(ContentLines) : ~IsBlank(ContentLines[k]) }
  IN  IF solid = {} THEN 0 ELSE CHOOSE k \in solid : \A m \in solid : k <= m

\* the first line after line k that is not blank, past the end if none
TextAfter(k) ==
  LET solid == { m \in (k + 1)..Len(ContentLines) : ~IsBlank(ContentLines[m]) }
  IN  IF solid = {} THEN Len(ContentLines) + 1
      ELSE CHOOSE m \in solid : \A n \in solid : m <= n

\* a and b are the same text but for the case of their letters
SameIgnoringCase(a, b) ==
  /\ Len(a) = Len(b)
  /\ \A j \in 1..Len(a) :
       \/ a[j] = b[j]
       \/ {a[j], b[j]} \in { {"t", "T"}, {"x", "X"} }

\* l is n '#' in the first column, whitespace, and the title
HeadingOfTitle(l, n) ==
  /\ Len(l) > n + 1
  /\ \A j \in 1..n : l[j] = "#"
  /\ l[n + 1] \in Whitespace
  /\ ~IsBlank(Drop(l, n))
  /\ SameIgnoringCase(strip(Drop(l, n)), strip(title))

\* the content lines without line k and the blank lines right after it
WithoutHeading(k) ==
  SubSeq(ContentLines, 1, k - 1) \o SubSeq(ContentLines, TextAfter(k), Len(ContentLines))

\* a heading of the title of another level than 2 is still in the result
OtherLevelsKept ==
  (FirstText > 0 /\ \E n \in {1, 3, 4, 5, 6} : HeadingOfTitle(ContentLines[FirstText], n))
  => \E j \in 1..Len(split(result, NL)) : split(result, NL)[j] = strip(ContentLines[FirstText])

\* C26 as stated: when the first line with text is a level-2 heading of the
\* title, the result is the content without that line and the blank lines
\* right after it and with every other line as it was; a heading of another
\* level is not removed
C26_ExactlyHeadingRemoved ==
  pc = "returned"
  => /\ (FirstText > 0 /\ HeadingOfTitle(ContentLines[FirstText], 2))
        => result = join(WithoutHeading(FirstText), <<NL>>)
     /\ OtherLevelsKept

\* C26: when the first line with text is a level-2 heading of the title, the
\* result is the content without that line and the blank lines right after
\* it, trimmed of the whitespace at both ends; a heading of another level is
\* not removed
C26_HeadingRemovedAndTrimmed ==
  pc = "returned"
  => /\ (FirstText > 0 /\ HeadingOfTitle(ContentLines[FirstText], 2))
        => result = strip(join(WithoutHeading(FirstText), <<NL>>))
     /\ OtherLevelsKept

C26_Witness ==
  /\ pc = "returned"
  /\ title = <<"T">>
  /\ ContentLines = <<H2Lower, HBlank, H2Upper>>
  /\ result = H2Upper

\* the first line with text is no level-2 heading of the title
NothingRedundant ==
  FirstText = 0 \/ ~HeadingOfTitle(ContentLines[FirstText], 2)

\* C27 as stated: without a level-2 heading of the title in front, the
\* result is the content as it was
C27_Unchanged ==
  pc = "returned" /\ NothingRedundant => result = content

\* C27: without a level-2 heading of the title in front, the result is the
\* content trimmed of the whitespace at both ends
C27_UnchangedButTrimmed ==
  pc = "returned" /\ NothingRedundant => result = strip(content)

C27_Witness ==
  /\ pc = "returned"
  /\ title = <<"T">>
  /\ ContentLines = <<HBlank, H3, HSpace>>
  /\ result = H3

(***************************************************************************)
(* _image_dimensions_from_bytes                                            *)
(***************************************************************************)
\* data[k], k counted from 0
At(k) == data[k + 1]

\* struct.unpack('>H', data[k:k + 2])[0]
UnpackH(k) == At(k) * 256 + At(k + 1)

\* struct.unpack('>I', data[k:k + 4])[0]
UnpackI(k) == ((At(k) * 256 + At(k + 1)) * 256 + At(k + 2)) * 256 + At(k + 3)

\* 'png' in mime
IsPng == find(mime, <<"p", "n", "g">>) >= 0

\* 'jpeg' in mime or 'jpg' in mime
IsJpeg == find(mime, <<"j", "p", "e", "g">>) >= 0 \/ find(mime, <<"j", "p", "g">>) >= 0

Fallback == <<500, 300>>

\* a 2 x 3 PNG: signature and chunk head, width and height at 16 and 20
PngSample == [j \in 1..16 |-> 0] \o <<0, 0, 0, 2>> \o <<0, 0, 0, 3>>

\* a JPEG with one segment of length 2 before the frame header FF C0
JpegSample == <<255, 216, 255, 224, 0, 2, 255, 192, 0, 17, 8, 0, 2, 0, 3>>

ByteSet == {0, 192, 255}

ImageData ==
  UNION { [1..n -> ByteSet] : n \in 0..MaxBytes }
    \cup { Take(PngSample, n) : n \in 0..Len(PngSample) }
    \cup { Take(JpegSample, n) : n \in 0..Len(JpegSample) }

Mimes ==
  { <<"i", "m", "a", "g", "e", "/", "p", "n", "g">>,
    <<"i", "m", "a", "g", "e", "/", "j", "p", "e", "g">>,
    <<"i", "m", "a", "g", "e", "/", "j", "p", "g">>,
    <<"i", "m", "a", "g", "e", "/", "g", "i", "f">> }

InitImage ==
  /\ data \in ImageData
  /\ mime \in Mimes
  /\ offset = 0
  /\ result = <<>>
  /\ pc = "image"
  /\ title = <<>> /\ content = <<>>
  /\ TocIdle
  /\ markdown = <<>> /\ lines = <<>> /\ i = 1 /\ blocks = <<>> /\ span = <<>>
  /\ inline = <<>> /\ tokens = <<>> /\ tok = 1 /\ runs = <<>>

\* if 'png' in mime and len(data) >= 24: return w, h
ReadPng ==
  /\ pc = "image"
  /\ IsPng /\ Len(data) >= 24
  /\ result' = <<UnpackI(16), UnpackI(20)>>
  /\ pc' = "sized"
  /\ UNCHANGED <<tocVars, parserVars, title, content, imageVars>>

\* if ('jpeg' in mime or 'jpg' in mime) and len(data) >= 4: offset = 2
EnterJpeg ==
  /\ pc = "image"
  /\ ~(IsPng /\ Len(data) >= 24)
  /\ IsJpeg /\ Len(data) >= 4
  /\ offset' = 2
  /\ pc' = "jpeg"
  /\ UNCHANGED <<tocVars, parserVars, headVars, data, mime>>

\* neither branch is taken: return 500, 300
UnknownFormat ==
  /\ pc = "image"
  /\ ~(IsPng /\ Len(data) >= 24)
  /\ ~(IsJpeg /\ Len(data) >= 4)
  /\ result' = Fallback
  /\ pc' = "sized"
  /\ UNCHANGED <<tocVars, parserVars, title, content, imageVars>>

InJpeg == pc = "jpeg" /\ offset < Len(data)

\* if data[offset] != 0xFF: offset += 1; continue
SkipByte ==
  /\ InJpeg
  /\ At(offset) # 255
  /\ offset' = offset + 1
  /\ UNCHANGED <<tocVars, parserVars, headVars, data, mime, pc>>

\* marker = data[offset + 1] past the end of the data: IndexError
MarkerMissing ==
  /\ InJpeg
  /\ At(offset) = 255
  /\ offset + 1 >= Len(data)
  /\ pc' = "index_error"
  /\ UNCHANGED <<tocVars, parserVars, headVars, imageVars>>

AtMarker == InJpeg /\ At(offset) = 255 /\ offset + 1 < Len(data)

\* marker in (0xC0, 0xC2): return w, h
ReadFrame ==
  /\ AtMarker
  /\ At(offset + 1) \in {192, 194}
  /\ offset + 9 <= Len(data)
  /\ result' = <<UnpackH(offset + 7), UnpackH(offset + 5)>>
  /\ pc' = "sized"
  /\ UNCHANGED <<tocVars, parserVars, title, content, imageVars>>

\* the slices data[offset + 5:offset + 7] or data[offset + 7:offset + 9] are
\* shorter than two bytes: struct.error
FrameTruncated ==
  /\ AtMarker
  /\ At(offset + 1) \in {192, 194}
  /\ offset + 9 > Len(data)
  /\ pc' = "struct_error"
  /\ UNCHANGED <<tocVars, parserVars, headVars, imageVars>>

\* the slice data[offset + 2:offset + 4] is shorter than two bytes:
\* struct.error
SegmentTruncated ==
  /\ AtMarker
  /\ At(offset + 1) \notin {192, 194}
  /\ offset + 4 > Len(data)
  /\ pc' = "struct_error"
  /\ UNCHANGED <<tocVars, parserVars, headVars, imageVars>>

\* if seg_len == 0: break; return 500, 300
EmptySegment ==
  /\ AtMarker
  /\ At(offset + 1) \notin {192, 194}
  /\ offset + 4 <= Len(data)
  /\ UnpackH(offset + 2) = 0
  /\ result' = Fallback
  /\ pc' = "sized"
  /\ UNCHANGED <<tocVars, parserVars, title, content, imageVars>>

\* offset += 2 + seg_len
SkipSegment ==
  /\ AtMarker
  /\ At(offset + 1) \notin {192, 194}
  /\ offset + 4 <= Len(data)
  /\ UnpackH(offset + 2) # 0
  /\ offset' = offset + 2 + UnpackH(offset + 2)
  /\ UNCHANGED <<tocVars, parserVars, headVars, data, mime, pc>>

\* the loop ends without a frame header: return 500, 300
NoFrame ==
  /\ pc = "jpeg"
  /\ offset >= Len(data)
  /\ result' = Fallback
  /\ pc' = "sized"
  /\ UNCHANGED <<tocVars, parserVars, title, content, imageVars>>

NextImage ==
  \/ ReadPng
  \/ EnterJpeg
  \/ UnknownFormat
  \/ SkipByte
  \/ MarkerMissing
  \/ ReadFrame
  \/ FrameTruncated
  \/ SegmentTruncated
  \/ EmptySegment
  \/ SkipSegment
  \/ NoFrame

SpecImage == InitImage /\ [][NextImage]_vars

\* the data holds a frame header FF C0 or FF C2 with all of its nine bytes
HasWholeFrame ==
  \E k \in 2..(Len(data) - 9) : At(k) = 255 /\ At(k + 1) \in {192, 194}

\* C28: the function never raises: it ends with a pair of numbers, and with
\* the pair (500, 300) for a media type it does not know, for PNG data
\* shorter than 24 bytes and for JPEG data without a whole frame header
C28_TotalWithFallback ==
  /\ pc \notin {"index_error", "struct_error"}
  /\ pc = "sized" => /\ Len(result) = 2
                     /\ (~IsPng /\ ~IsJpeg) => result = Fallback
                     /\ (IsPng /\ Len(data) < 24) => result = Fallback
                     /\ (IsJpeg /\ ~HasWholeFrame) => result = Fallback

\* C29: every Paragraph block has text that is not empty
C29_ParagraphNotEmpty ==
  \A b \in 1..Len(blocks) : blocks[b].type = "paragraph" => blocks[b].text # <<>>

(***************************************************************************)
(* _build_toc_entries, _add_static_toc and _add_content_sections            *)
(***************************************************************************)
SECTION_ORDER ==
  << "background", "hackathon_structure", "challenge", "goal", "data",
     "approach", "results", "canvas", "user_flow", "conclusion" >>

\* SECTION_TITLES.get(sid, {}).get('en', sid), as a text of one piece
DefaultTitle(sid) ==
  CASE sid = "background" -> <<"Background">>
    [] sid = "hackathon_structure" -> <<"Hackathon">>
    [] sid = "challenge" -> <<"Challenge">>
    [] sid = "goal" -> <<"Goal">>
    [] sid = "data" -> <<"Data">>
    [] sid = "approach" -> <<"Approach">>
    [] sid = "results" -> <<"Results">>
    [] sid = "canvas" -> <<"AI Breakthrough Canvas">>
    [] sid = "user_flow" -> <<"User Flow">>
    [] sid = "conclusion" -> <<"Conclusion">>
    [] sid = "participants" -> <<"Participants">>
    [] OTHER -> <<sid>>

\* str(n) for the numbers a table of contents can hold
Str(n) ==
  CASE n = 1 -> "1" [] n = 2 -> "2" [] n = 3 -> "3" [] n = 4 -> "4"
    [] n = 5 -> "5" [] n = 6 -> "6" [] n = 7 -> "7" [] n = 8 -> "8"
    [] n = 9 -> "9" [] n = 10 -> "10"

\* f'section-{sid}'
BookmarkName(sid) == <<"section-", sid>>

\* by_id = {s['id']: s for s in sections}: the section a later entry of the
\* same id replaces an earlier one in
by_id(sid) ==
  LET hits == { j \in 1..Len(sections) : sections[j].id = sid }
  IN  sections[CHOOSE j \in hits : \A m \in hits : m <= j]

InById(sid) == \E j \in 1..Len(sections) : sections[j].id = sid

\* _title(sid)
TocTitle(sid) ==
  IF InById(sid) /\ strip(by_id(sid).title) # <<>>
  THEN strip(by_id(sid).title)
  ELSE DefaultTitle(sid)

TocEntry(key, etitle, level, section_id, number_label) ==
  [key |-> key, title |-> etitle, level |-> level, section_id |-> section_id,
   number_label |-> number_label]

RECURSIVE InputOrderIds(_)
\* the ids of SECTION_ORDER in the order the sections come in the input
InputOrderIds(k) ==
  IF k > Len(sections) THEN <<>>
  ELSE IF \E p \in 1..Len(SECTION_ORDER) : SECTION_ORDER[p] = sections[k].id
       THEN <<sections[k].id>> \o InputOrderIds(k + 1)
       ELSE InputOrderIds(k + 1)

RECURSIVE SortedIds(_)
\* sorted_ids = [sid for sid in SECTION_ORDER if sid in by_id], from the
\* p-th id of SECTION_ORDER on
SortedIds(p) ==
  IF p > Len(SECTION_ORDER) THEN <<>>
  ELSE IF InById(SECTION_ORDER[p])
       THEN <<SECTION_ORDER[p]>> \o SortedIds(p + 1)
       ELSE SortedIds(p + 1)

SectionIds == { "background", "goal", "conclusion", "participants", "extra" }

SectionTitles == { <<>>, <<" ", "M", "y">> }

SectionLists ==
  UNION { [1..n -> [id : SectionIds, title : SectionTitles]] : n \in 0..MaxSections }

InitToc ==
  /\ sections \in SectionLists
  /\ entries = <<>>
  /\ links = <<>>
  /\ bookmarks = <<>>
  /\ pos = 1
  /\ pc = "entries"
  /\ HeadingIdle
  /\ ImageIdle
  /\ markdown = <<>> /\ lines = <<>> /\ i = 1 /\ blocks = <<>> /\ span = <<>>
  /\ inline = <<>> /\ tokens = <<>> /\ tok = 1 /\ runs = <<>>

InOrderLoop == pc = "entries" /\ pos <= Len(SECTION_ORDER)

\* if sid not in by_id: continue
SkipAbsent ==
  /\ InOrderLoop
  /\ ~InById(SECTION_ORDER[pos])
  /\ pos' = pos + 1
  /\ UNCHANGED <<sections, entries, links, bookmarks, pc, parserVars, headVars, imageVars>>

\* entries.append(TocEntry(key=sid, title=_title(sid), level=1, section_id=sid))
AppendEntry ==
  /\ InOrderLoop
  /\ InById(SECTION_ORDER[pos])
  /\ entries' = Append(entries, TocEntry(SECTION_ORDER[pos], TocTitle(SECTION_ORDER[pos]),
                                         1, SECTION_ORDER[pos], ""))
  /\ pos' = pos + 1
  /\ UNCHANGED <<sections, links, bookmarks, pc, parserVars, headVars, imageVars>>

\* for i, entry in enumerate(entries, 1): entry.number_label = str(i)
NumberEntries ==
  /\ pc = "entries"
  /\ pos > Len(SECTION_ORDER)
  /\ entries' = [e \in 1..Len(entries) |-> [entries[e] EXCEPT !.number_label = Str(e)]]
  /\ pc' = "toc"
  /\ UNCHANGED <<sections, links, bookmarks, pos, parserVars, headVars, imageVars>>

\* _add_static_toc: one hyperlink to f'section-{entry.section_id}' per entry
AddStaticToc ==
  /\ pc = "toc"
  /\ links' = [e \in 1..Len(entries) |-> BookmarkName(entries[e].section_id)]
  /\ pos' = 1
  /\ pc' = "body"
  /\ UNCHANGED <<sections, entries, bookmarks, parserVars, headVars, imageVars>>

\* _add_content_sections: _make_bookmark(para, ..., f'section-{section_id}')
\* for the next id of sorted_ids
AddContentSection ==
  /\ pc = "body"
  /\ pos <= Len(SortedIds(1))
  /\ bookmarks' = Append(bookmarks, BookmarkName(SortedIds(1)[pos]))
  /\ pos' = pos + 1
  /\ UNCHANGED <<sections, entries, links, pc, parserVars, headVars, imageVars>>

\* the loop over sorted_ids ends
SectionsAdded ==
  /\ pc = "body"
  /\ pos > Len(SortedIds(1))
  /\ pc' = "built"
  /\ UNCHANGED <<tocVars, parserVars, headVars, imageVars>>

NextToc ==
  \/ SkipAbsent
  \/ AppendEntry
  \/ NumberEntries
  \/ AddStaticToc
  \/ AddContentSection
  \/ SectionsAdded

SpecToc == InitToc /\ [][NextToc]_vars

\* the place of an id in SECTION_ORDER, 0 for an id that is not in it
OrderPlace(sid) ==
  IF \E p \in 1..Len(SECTION_ORDER) : SECTION_ORDER[p] = sid
  THEN CHOOSE p \in 1..Len(SECTION_ORDER) : SECTION_ORDER[p] = sid
  ELSE 0

\* the ids of the input that are in SECTION_ORDER
PresentIds == { sections[j].id : j \in 1..Len(sections) } \cap { SECTION_ORDER[p] : p \in 1..Len(SECTION_ORDER) }

====
